---- MODULE Spec2Model ----
(***************************************************************************)
(* Model of src/src/comment.ts: the comment reconciliation protocol of     *)
(* changesets-gitlab.  One run of comment() is a main thread plus the      *)
(* three promises it joins with Promise.all (note lookup, changeset check, *)
(* changed-package discovery) over one shared changed-files promise.       *)
(*                                                                         *)
(* Strings the code inspects character by character (user names, branch    *)
(* names, file paths) are sequences of one-character strings.  A comment   *)
(* body is a sequence of segments; a text segment is [t |-> "..."].        *)
(***************************************************************************)
EXTENDS Integers, Sequences, FiniteSets, TLC

\* ------------------------------------------------------------------ bounds

\* Number of notes already on the merge request when the first run starts.
MaxPrior == 2

\* Number of sequential runs of comment() on one merge request (SpecSeq).
MaxRuns == 2

\* Number of releases in a release plan (SpecRender).
MaxReleases == 3

\* ------------------------------------------------------- character strings

LowerLetters == <<"a","b","c","d","e","f","g","h","i","j","k","l","m",
                  "n","o","p","q","r","s","t","u","v","w","x","y","z">>

UpperLetters == <<"A","B","C","D","E","F","G","H","I","J","K","L","M",
                  "N","O","P","Q","R","S","T","U","V","W","X","Y","Z">>

Digits == {"0","1","2","3","4","5","6","7","8","9"}

Range(s) == {s[i] : i \in DOMAIN s}

IsLetter(c) == c \in Range(LowerLetters) \cup Range(UpperLetters)

\* \w of a JavaScript regular expression
IsWordChar(c) == IsLetter(c) \/ c \in Digits \/ c = "_"

\* [\da-z] under the i flag
IsAlnum(c) == IsLetter(c) \/ c \in Digits

ToLower(c) ==
  IF c \in Range(UpperLetters)
    THEN LowerLetters[CHOOSE i \in DOMAIN UpperLetters : UpperLetters[i] = c]
    ELSE c

LowerStr(s) == [i \in DOMAIN s |-> ToLower(s[i])]

\* String.prototype.startsWith
StartsWith(s, p) == Len(s) >= Len(p) /\ SubSeq(s, 1, Len(p)) = p

EndsWith(s, p) == Len(s) >= Len(p) /\ SubSeq(s, Len(s) - Len(p) + 1, Len(s)) = p

\* case-insensitive prefix test, as a literal behaves under the i flag
StartsWithCI(s, p) == StartsWith(LowerStr(s), p)

Drop(s, n) == SubSeq(s, n + 1, Len(s))

\* length of the longest run of digits at the start of s
DigitRun(s) ==
  LET stops == {i \in 1..Len(s) : s[i] \notin Digits}
  IN IF stops = {} THEN Len(s)
     ELSE (CHOOSE i \in stops : \A j \in stops : i <= j) - 1

StrProject == <<"p","r","o","j","e","c","t">>

StrGroup == <<"g","r","o","u","p">>

StrUBot == <<"_","b","o","t">>

NoMatch == <<"<", "n", "o", " ", "m", "a", "t", "c", "h", ">">>

\* ^(?:project|group)_\d+_bot\w*$ under the i flag
MatchesBotBase(s) ==
  LET afterScope ==
        IF StartsWithCI(s, StrProject \o <<"_">>) THEN Drop(s, Len(StrProject) + 1)
        ELSE IF StartsWithCI(s, StrGroup \o <<"_">>) THEN Drop(s, Len(StrGroup) + 1)
        ELSE NoMatch
      n == DigitRun(afterScope)
      rest == Drop(afterScope, n)
  IN /\ afterScope # NoMatch
     /\ n >= 1
     /\ StartsWithCI(rest, StrUBot)
     /\ \A i \in (Len(StrUBot) + 1)..Len(rest) : IsWordChar(rest[i])

\* faulty variant: what follows the last underscore is not checked
RANDOM_BOT_NAME_PATTERN_AnySuffix(login) ==
  LET us == {i \in 1..Len(login) : login[i] = "_"}
      k == CHOOSE i \in us : \A j \in us : j <= i
      base == SubSeq(login, 1, k - 1)
  IN IF us = {} THEN NoMatch
     ELSE IF MatchesBotBase(base) THEN base ELSE NoMatch

\* login.match(RANDOM_BOT_NAME_PATTERN)?.[1] : the first capture group, or
\* NoMatch.  The random suffix [\da-z]+ holds no underscore, so the group
\* ends right before the last underscore of the login.
RANDOM_BOT_NAME_PATTERN(login) ==
  LET us == {i \in 1..Len(login) : login[i] = "_"}
      k == CHOOSE i \in us : \A j \in us : j <= i
      base == SubSeq(login, 1, k - 1)
      suffix == Drop(login, k)
  IN IF us = {} THEN NoMatch
     ELSE IF /\ Len(suffix) >= 1
             /\ \A i \in DOMAIN suffix : IsAlnum(suffix[i])
             /\ MatchesBotBase(base)
          THEN base
          ELSE NoMatch

\* ------------------------------------------------------------------ bodies

generatedByBotNote == "Generated By Changesets GitLab Bot"

Text(s) == [t |-> s]

\* String.prototype.includes on a body, for a literal that is one segment
Includes(body, s) == \E i \in DOMAIN body : "t" \in DOMAIN body[i] /\ body[i].t = s

Null == [kind |-> "null"]

NumStr(n) == IF n = 0 THEN "0" ELSE <<"1", "2", "3", "4", "5", "6">>[n]

\* faulty variant: the entries of type "none" are kept
SelectPublishableAll(releases) == releases

RECURSIVE SelectPublishable(_)
SelectPublishable(releases) ==
  IF releases = <<>> THEN <<>>
  ELSE (IF Head(releases).type # "none" THEN <<Head(releases)>> ELSE <<>>)
         \o SelectPublishable(Tail(releases))

TypeLabel(type) ==
  CASE type = "major" -> "Major"
    [] type = "minor" -> "Minor"
    [] type = "patch" -> "Patch"
    [] OTHER -> "undefined"

RECURSIVE TableRows(_)
TableRows(releases) ==
  IF releases = <<>> THEN <<>>
  ELSE <<Text(Head(releases).name), Text(TypeLabel(Head(releases).type))>>
         \o TableRows(Tail(releases))

markdownTable(releases) == <<Text("Name"), Text("Type")>> \o TableRows(releases)

\* faulty variant: without a release plan the summary of a plan without
\* changesets is rendered
getReleasePlanMessageNullAsEmpty(releasePlan) ==
  IF releasePlan = Null
    THEN <<Text("<details><summary>This MR includes"), Text("no changesets"),
           Text("</summary>"),
           Text("When changesets are added to this MR, you'll see the packages"),
           Text("</details>")>>
  ELSE
    LET publishableReleases == SelectPublishable(releasePlan.releases)
        n == Len(publishableReleases)
    IN <<Text("<details><summary>This MR includes")>>
       \o (IF Len(releasePlan.changesets) > 0
             THEN <<Text("changesets to release")>>
                  \o (IF n = 1 THEN <<Text("1 package")>>
                      ELSE <<Text(NumStr(n)), Text("packages")>>)
             ELSE <<Text("no changesets")>>)
       \o <<Text("</summary>")>>
       \o (IF n > 0 THEN markdownTable(publishableReleases)
           ELSE <<Text("When changesets are added to this MR, you'll see the packages")>>)
       \o <<Text("</details>")>>

getReleasePlanMessage(releasePlan) ==
  IF releasePlan = Null THEN <<>>
  ELSE
    LET publishableReleases == SelectPublishable(releasePlan.releases)
        n == Len(publishableReleases)
    IN <<Text("<details><summary>This MR includes")>>
       \o (IF Len(releasePlan.changesets) > 0
             THEN <<Text("changesets to release")>>
                  \o (IF n = 1 THEN <<Text("1 package")>>
                      ELSE <<Text(NumStr(n)), Text("packages")>>)
             ELSE <<Text("no changesets")>>)
       \o <<Text("</summary>")>>
       \o (IF n > 0 THEN markdownTable(publishableReleases)
           ELSE <<Text("When changesets are added to this MR, you'll see the packages")>>)
       \o <<Text("</details>")>>

\* faulty variant: the sentinel line is left out of the body
getAbsentMessageNoMarker(commitSha, addChangesetUrl, releasePlan) ==
  <<Text("No Changeset found"), Text("Latest commit:"), Text(commitSha),
    Text("Merging this MR will not cause a version bump for any packages.")>>
  \o getReleasePlanMessage(releasePlan)
  \o <<Text("Click here to learn what changesets are, and how to add one"),
       Text("Click here if you're a maintainer who wants to add a changeset to this MR"),
       addChangesetUrl>>

getAbsentMessage(commitSha, addChangesetUrl, releasePlan) ==
  <<Text("No Changeset found"), Text("Latest commit:"), Text(commitSha),
    Text("Merging this MR will not cause a version bump for any packages.")>>
  \o getReleasePlanMessage(releasePlan)
  \o <<Text("Click here to learn what changesets are, and how to add one"),
       Text("Click here if you're a maintainer who wants to add a changeset to this MR"),
       addChangesetUrl,
       Text("__"), Text(generatedByBotNote), Text("__")>>

getApproveMessage(commitSha, addChangesetUrl, releasePlan) ==
  <<Text("Changeset detected"), Text("Latest commit:"), Text(commitSha),
    Text("The changes in this MR will be included in the next version bump.")>>
  \o getReleasePlanMessage(releasePlan)
  \o <<Text("Not sure what this means? Click here to learn what changesets are"),
       Text("Click here if you're a maintainer who wants to add another changeset to this MR"),
       addChangesetUrl,
       Text("__"), Text(generatedByBotNote), Text("__")>>

\* the file body pre-filled in the deep link: each changed package as patch,
\* then the merge request title
getNewChangesetTemplate(changedPackages, title) ==
  [packages |-> [i \in DOMAIN changedPackages |-> <<changedPackages[i], "patch">>],
   title |-> title]

\* ------------------------------------------------------------ note locator

isMrNote(discussionOrNote) ==
  /\ "noteable_type" \in DOMAIN discussionOrNote
  /\ discussionOrNote.noteable_type = "MergeRequest"

\* faulty variant: the body is not checked for the sentinel
isChangesetBotNoteAnyBody(note, username, random) ==
  \/ note.author.username = username
  \/ random /\ RANDOM_BOT_NAME_PATTERN(note.author.username) = username

isChangesetBotNote(note, username, random) ==
  /\ \/ note.author.username = username
     \/ random /\ RANDOM_BOT_NAME_PATTERN(note.author.username) = username
  /\ Includes(note.body, generatedByBotNote)

\* faulty variant: the nested search also accepts a randomized login
FindBotNoteRandom(notes, username) ==
  LET hits == {i \in DOMAIN notes : isChangesetBotNote(notes[i], username, TRUE)}
  IN IF hits = {} THEN Null
     ELSE notes[CHOOSE i \in hits : \A j \in hits : i <= j]

\* Array.prototype.find over the nested notes, with exact-name matching only
FindBotNote(notes, username) ==
  LET hits == {i \in DOMAIN notes : isChangesetBotNote(notes[i], username, FALSE)}
  IN IF hits = {} THEN Null
     ELSE notes[CHOOSE i \in hits : \A j \in hits : i <= j]

\* what one item of the listing yields in the for loop of getNoteInfo, or Null
\* when the loop continues
ItemResult(discussionOrNote, username, random) ==
  IF isMrNote(discussionOrNote)
    THEN IF isChangesetBotNote(discussionOrNote, username, random)
           THEN [kind |-> "note", noteId |-> discussionOrNote.id]
           ELSE Null
  ELSE IF "notes" \notin DOMAIN discussionOrNote THEN Null
  ELSE LET changesetBotNote == FindBotNote(discussionOrNote.notes, username)
       IN IF changesetBotNote # Null
            THEN [kind |-> "discussion",
                  discussionId |-> discussionOrNote.id,
                  noteId |-> changesetBotNote.id]
            ELSE Null

\* faulty variant: the loop keeps the last item that qualifies
ScanListingLast(discussionOrNotes, username, random) ==
  LET hits == {i \in DOMAIN discussionOrNotes :
                 ItemResult(discussionOrNotes[i], username, random) # Null}
  IN IF hits = {} THEN Null
     ELSE ItemResult(discussionOrNotes[CHOOSE i \in hits : \A j \in hits : j <= i],
                     username, random)

\* the for loop of getNoteInfo: the first item that returns, or Null
ScanListing(discussionOrNotes, username, random) ==
  LET hits == {i \in DOMAIN discussionOrNotes :
                 ItemResult(discussionOrNotes[i], username, random) # Null}
  IN IF hits = {} THEN Null
     ELSE ItemResult(discussionOrNotes[CHOOSE i \in hits : \A j \in hits : i <= j],
                     username, random)

\* ------------------------------------------------------- changeset detection

StrChangesetDir == <<".","c","h","a","n","g","e","s","e","t","/">>

StrMd == <<".","m","d">>

StrReadme == StrChangesetDir \o <<"R","E","A","D","M","E">> \o StrMd

\* the characters the dot of a regular expression does not match
LineTerminators == {"\n", "\r"}

\* /^\.changeset\/.+\.md$/.test(path)
IsChangesetPath(path) ==
  /\ StartsWith(path, StrChangesetDir)
  /\ EndsWith(path, StrMd)
  /\ Len(path) >= Len(StrChangesetDir) + 1 + Len(StrMd)
  /\ \A i \in (Len(StrChangesetDir) + 1)..(Len(path) - Len(StrMd)) :
       path[i] \notin LineTerminators

\* faulty variant: a changeset file counts whether it is new or not
IsAddedChangesetAnyStatus(file) ==
  /\ IsChangesetPath(file.new_path)
  /\ file.new_path # StrReadme

IsAddedChangeset(file) ==
  /\ file.new_file
  /\ IsChangesetPath(file.new_path)
  /\ file.new_path # StrReadme

hasChangesetBeenAdded(changedFiles) ==
  \E i \in DOMAIN changedFiles.changes : IsAddedChangeset(changedFiles.changes[i])

\* ------------------------------------------------------------------ errors

GITLAB_API_ERROR_CAUSE_KEYS == {"description", "request", "response"}

isError(value) == value.isError

isGitLabAPIError(error) ==
  /\ isError(error)
  /\ error.hasCause
  /\ \A key \in error.causeKeys : key \in GITLAB_API_ERROR_CAUSE_KEYS

\* ------------------------------------------------------- the environment

\* the user name getUsername resolves for the token
Username == <<"p","r","o","j","e","c","t","_","1","_","b","o","t">>

\* the login GitLab may give the same token: the user name plus a random suffix
RandomLogin == Username \o <<"_","a","1">>

OtherLogin == <<"a","l","i","c","e">>

Logins == {Username, RandomLogin, OtherLogin}

\* the logins under which the platform records a note the token writes
BotLogins == {Username, RandomLogin}

PriorBodies == {<<Text("LGTM")>>, <<Text("__"), Text(generatedByBotNote), Text("__")>>}

NoBranch == <<>>

ReleaseBranch == <<"c","h","a","n","g","e","s","e","t","-","r","e","l","e","a","s","e","/","m","a","i","n">>

FeatureBranch == <<"f","e","a","t","/","x">>

Branches == {NoBranch, ReleaseBranch, FeatureBranch}

StrChangesetRelease == SubSeq(ReleaseBranch, 1, 17)

CommentTypes == {"discussion", "note", "thread"}

CI_MERGE_REQUEST_PROJECT_URL == "https://gitlab.example/group/project"

CI_MERGE_REQUEST_SOURCE_BRANCH_SHA == "0a1b2c3"

CI_MERGE_REQUEST_TITLE == "Fix the thing"

GITLAB_ADD_CHANGESET_MESSAGE == ""

\* human-id slugs the run may draw for the suggested file name
HumanIds == {"calm-owls-sing"}

AddedChangeset == [new_path |-> StrChangesetDir \o <<"a">> \o StrMd, new_file |-> TRUE]

SourceFile == [new_path |-> <<"s","r","c","/","a",".","t","s">>, new_file |-> FALSE]

ModifiedChangeset == [new_path |-> StrChangesetDir \o <<"a">> \o StrMd, new_file |-> FALSE]

AddedReadme == [new_path |-> StrReadme, new_file |-> TRUE]

AddedNested == [new_path |-> StrChangesetDir \o <<"b","/","c">> \o StrMd, new_file |-> TRUE]

\* new files whose paths the pattern does not match
AddedEmptyName == [new_path |-> StrChangesetDir \o StrMd, new_file |-> TRUE]

AddedMdx == [new_path |-> StrChangesetDir \o <<"a">> \o StrMd \o <<"x">>, new_file |-> TRUE]

AddedElsewhere ==
  [new_path |-> <<"d","o","c","s","/">> \o StrChangesetDir \o <<"a">> \o StrMd,
   new_file |-> TRUE]

\* the results MergeRequests.showChanges may resolve to
ChangedFilesSet ==
  {[changes |-> <<SourceFile, AddedChangeset>>],
   [changes |-> <<ModifiedChangeset, AddedReadme, AddedEmptyName, AddedMdx, AddedElsewhere>>],
   [changes |-> <<AddedReadme, AddedNested>>]}

PlanOne ==
  [changesets |-> <<"cs1">>,
   releases |-> <<[name |-> "pkg-a", type |-> "minor"], [name |-> "pkg-b", type |-> "none"]>>]

PackageNames == <<"pkg-a", "pkg-b", "pkg-c", "pkg-d", "pkg-e">>

VersionTypes == {"major", "minor", "patch", "none"}

\* the release plans of a repository: one changeset or more and up to
\* MaxReleases releases, or no changeset and no release
ReleasePlans ==
  {[changesets |-> <<>>, releases |-> <<>>]}
    \cup UNION {{[changesets |-> cs,
                  releases |-> [i \in 1..n |-> [name |-> PackageNames[i], type |-> ts[i]]]] :
                   ts \in [1..n -> VersionTypes],
                   cs \in {<<"cs1">>, <<"cs1", "cs2">>}} : n \in 0..MaxReleases}

ValidationMessages == {"Some errors occurred when validating the changesets config"}

FallbackDiscovery == [changedPackages |-> <<"@fake-scope/fake-pkg">>, releasePlan |-> Null]

NoError == [name |-> "none", isError |-> FALSE, hasCause |-> FALSE, causeKeys |-> {}, message |-> ""]

\* the errors a call of the platform API named `name` may reject with
ApiErrors(name) ==
  {[name |-> name, isError |-> TRUE, hasCause |-> TRUE,
    causeKeys |-> GITLAB_API_ERROR_CAUSE_KEYS, message |-> "Bad Gateway"],
   [name |-> name, isError |-> TRUE, hasCause |-> FALSE,
    causeKeys |-> {}, message |-> "fetch failed"]}

ConfigError ==
  [name |-> "InvalidCommentType", isError |-> TRUE, hasCause |-> FALSE,
   causeKeys |-> {}, message |-> "Invalid comment type, should be discussion or note"]

ValidationErrors ==
  {[name |-> "ValidationError", isError |-> TRUE, hasCause |-> FALSE,
    causeKeys |-> {}, message |-> m] : m \in ValidationMessages}

DiscoveryError ==
  [name |-> "DiscoveryError", isError |-> TRUE, hasCause |-> FALSE,
   causeKeys |-> {}, message |-> "ENOENT"]

\* ---------------------------------------------------- the platform's notes

\* the merge request's threads: each [id, notes], a note [id, author, body]
NthSmallest(S, d) == CHOOSE x \in S : Cardinality({y \in S : y < x}) = d - 1

\* the threads holding `notes` in order, a new thread starting after each cut
Threads(notes, cuts) ==
  LET starts == {1} \cup {c + 1 : c \in cuts}
      first(d) == NthSmallest(starts, d)
      last(d) == IF d = Cardinality(starts) THEN Len(notes)
                 ELSE NthSmallest(starts, d + 1) - 1
  IN IF notes = <<>> THEN <<>>
     ELSE [d \in 1..Cardinality(starts) |->
             [id |-> d, notes |-> SubSeq(notes, first(d), last(d))]]

PriorStores ==
  UNION {{Threads([i \in 1..n |-> [id |-> i,
                                    author |-> [username |-> kinds[i][1]],
                                    body |-> kinds[i][2]]], cuts) :
            kinds \in [1..n -> Logins \X PriorBodies],
            cuts \in SUBSET (1..(n - 1))} : n \in 0..MaxPrior}

RECURSIVE AllNotes(_)
AllNotes(threads) ==
  IF threads = <<>> THEN <<>>
  ELSE Head(threads).notes \o AllNotes(Tail(threads))

\* MergeRequestDiscussions.all : the threads; MergeRequestNotes.all : the notes
ListingOf(commentType, threads) ==
  IF commentType = "discussion" THEN threads
  ELSE LET notes == AllNotes(threads)
       IN [i \in DOMAIN notes |->
             [noteable_type |-> "MergeRequest", id |-> notes[i].id,
              author |-> notes[i].author, body |-> notes[i].body]]

\* a new thread holding one note written by `login`
WithNewNote(threads, login, body) ==
  Append(threads,
         [id |-> Len(threads) + 1,
          notes |-> <<[id |-> Len(AllNotes(threads)) + 1,
                       author |-> [username |-> login],
                       body |-> body]>>])

\* the body of note `noteId` replaced (in thread `discussionId`; 0 is any thread)
WithEditedNote(threads, discussionId, noteId, body) ==
  [d \in DOMAIN threads |->
     IF discussionId # 0 /\ threads[d].id # discussionId THEN threads[d]
     ELSE [threads[d] EXCEPT !.notes =
             [i \in DOMAIN threads[d].notes |->
                IF threads[d].notes[i].id = noteId
                  THEN [threads[d].notes[i] EXCEPT !.body = body]
                  ELSE threads[d].notes[i]]]]

\* the bot's comments

\* a bot comment, as a later run has to recognise it: written under the user
\* name or under a random login of that user name, and carrying the marker
IsBotComment(note) ==
  /\ \/ note.author.username = Username
     \/ RANDOM_BOT_NAME_PATTERN(note.author.username) = Username
  /\ Includes(note.body, generatedByBotNote)

BotComments(threads) ==
  LET notes == AllNotes(threads)
  IN {notes[i].id : i \in {j \in DOMAIN notes : IsBotComment(notes[j])}}

\* ------------------------------------------------------------------- state

VARIABLES
  mrBranch,        \* env.CI_MERGE_REQUEST_SOURCE_BRANCH_NAME
  commentType,     \* env.GITLAB_COMMENT_TYPE
  repoPlan,        \* the release plan getChangedPackages finds in the repository
  store,           \* the threads the platform holds for the merge request
  pc,              \* comment(): "start", "join", "write", "logRequest", "logResponse", "done"
  npc,             \* getNoteInfo: "idle", "list", "user", "done", "failed"
  random,          \* getNoteInfo's random parameter in the current pass
  noteInfo,        \* what getNoteInfo resolved to
  cf,              \* changedFilesPromise: "idle", "pending", "ok", "failed"
  changedFiles,    \* the value or the rejection reason of changedFilesPromise
  changedPaths,    \* the same of changedFilesPromise.then(...), given to getChangedPackages
  hpc,             \* hasChangesetBeenAdded: "idle", "await", "done", "failed"
  hasChangeset,    \* what hasChangesetBeenAdded resolved to
  dpc,             \* getChangedPackages(...).catch(...): "idle", "pending", "done"
  discovery,       \* what it resolved to: [changedPackages, releasePlan]
  discoveryErr,    \* the error getChangedPackages rejected with, given to .catch
  errFromFetchingChangedFiles,
  err,             \* the error the catch block caught
  outcome,         \* of comment(): "running", "returned", "threw"
  thrown,          \* the error comment() rejected with
  calls,           \* platform API reads issued in this run, per kind
  writes,          \* platform API writes issued in this run, in order
  captured,        \* errors given to captureException in this run
  logs,            \* console.error / console.warn lines of the catch block
  raised,          \* platform API errors raised before comment() settled
  priorBot,        \* the bot comments the merge request held when this run began
  runs,            \* runs of comment() started so far
  allOk            \* every earlier run returned normally

vars ==
  <<mrBranch, commentType, repoPlan, store, pc, npc, random, noteInfo, cf, changedFiles,
    changedPaths, hpc, hasChangeset, dpc, discovery, discoveryErr, errFromFetchingChangedFiles,
    err, outcome, thrown, calls, writes, captured, logs, raised, priorBot, runs,
    allOk>>

envVars == <<mrBranch, commentType, repoPlan>>

noteVars == <<npc, random, noteInfo>>

filesVars == <<cf, changedFiles, changedPaths>>

hasVars == <<hpc, hasChangeset>>

discoveryVars == <<dpc, discovery, discoveryErr, errFromFetchingChangedFiles, captured>>

endVars == <<outcome, thrown>>

seqVars == <<runs, allOk>>

ghostVars == <<priorBot, runs, allOk>>

NoCalls == [list |-> 0, username |-> 0, showChanges |-> 0]

\* what getChangedPackages may resolve to
DiscoveryResults == {[changedPackages |-> <<"pkg-a">>, releasePlan |-> repoPlan]}

\* the state of a process that is about to call comment()
FreshRun ==
  /\ pc = "start"
  /\ npc = "idle"
  /\ random = FALSE
  /\ noteInfo = Null
  /\ cf = "idle"
  /\ changedFiles = [changes |-> <<>>]
  /\ changedPaths = <<>>
  /\ hpc = "idle"
  /\ hasChangeset = FALSE
  /\ dpc = "idle"
  /\ discovery = FallbackDiscovery
  /\ discoveryErr = NoError
  /\ errFromFetchingChangedFiles = <<>>
  /\ err = NoError
  /\ outcome = "running"
  /\ thrown = NoError
  /\ calls = NoCalls
  /\ writes = <<>>
  /\ captured = <<>>
  /\ logs = <<>>
  /\ raised = {}
  /\ priorBot = {}

Init ==
  /\ mrBranch \in Branches
  /\ commentType \in CommentTypes
  /\ repoPlan = PlanOne
  /\ store \in PriorStores
  /\ FreshRun
  /\ runs = 1
  /\ allOk = TRUE

\* --------------------------------------------------------------- comment()

\* Steps follow the event loop: an action is the settling of one awaited
\* operation together with the continuations that run in the same turn, up to
\* the next await of an operation that is still pending.

\* a platform API call rejects with e; what is raised once comment() has
\* settled is not recorded
Raise(e) == IF pc = "done" THEN raised ELSE raised \cup {e}

\* lines 352-357, 369: the catch block up to its first await; an error without
\* diagnostic data is thrown again at once
CatchBlock(e) ==
  /\ err' = e
  /\ IF isGitLabAPIError(e)
       THEN /\ logs' = Append(logs, "description")
            /\ pc' = "logRequest"
            /\ UNCHANGED <<outcome, thrown>>
       ELSE /\ pc' = "done"
            /\ outcome' = "threw"
            /\ thrown' = e
            /\ UNCHANGED logs

\* Promise.all rejects with the first rejection, which the catch block
\* catches; later rejections are dropped
RejectJoin(e) ==
  IF pc = "join" THEN CatchBlock(e)
  ELSE UNCHANGED <<pc, err, outcome, thrown, logs>>

\* faulty variant: the release branch is compared for equality instead of by prefix
NotApplicableExact(branch) == branch = NoBranch \/ branch = StrChangesetRelease

\* lines 243, 257: the run returns at once without a source branch or on a
\* release branch
NotApplicable(branch) == branch = NoBranch \/ StartsWith(branch, StrChangesetRelease)

\* lines 242-292: the applicability checks, then the changed-files fetch and
\* the three branches are started
Begin ==
  /\ pc = "start"
  /\ priorBot' = BotComments(store)
  /\ IF NotApplicable(mrBranch)
       THEN /\ pc' = "done"
            /\ outcome' = "returned"
            /\ logs' = IF mrBranch = NoBranch
                         THEN Append(logs, "It should only be used on MR")
                         ELSE logs
            /\ UNCHANGED <<calls, cf, npc, hpc, dpc>>
       ELSE /\ pc' = "join"
            /\ cf' = "pending"
            /\ npc' = "list"
            /\ hpc' = "await"
            /\ dpc' = "pending"
            /\ calls' = [calls EXCEPT !.showChanges = @ + 1, !.list = @ + 1]
            /\ UNCHANGED <<outcome, logs>>
  /\ UNCHANGED <<envVars, store, random, noteInfo, changedFiles, changedPaths,
                 hasChangeset, discovery, discoveryErr, errFromFetchingChangedFiles, captured, err, thrown,
                 writes, raised, seqVars>>

\* lines 157-161: the listing resolves and getUsername is called
ListResolve ==
  /\ npc = "list"
  /\ npc' = "user"
  /\ calls' = [calls EXCEPT !.username = @ + 1]
  /\ UNCHANGED <<envVars, store, pc, random, noteInfo, filesVars, hasVars,
                 discoveryVars, err, endVars, writes, logs, raised, ghostVars>>

ListReject ==
  /\ npc = "list"
  /\ \E e \in ApiErrors("list") :
       /\ npc' = "failed"
       /\ raised' = Raise(e)
       /\ RejectJoin(e)
  /\ UNCHANGED <<envVars, store, random, noteInfo, filesVars, hasVars,
                 discoveryVars, calls, writes, ghostVars>>

\* faulty variant: a scan that finds nothing is always started again
UserResolveRetryAlways ==
  /\ npc = "user"
  /\ LET found == ScanListing(ListingOf(commentType, store), Username, random)
     IN IF found # Null
          THEN /\ noteInfo' = found
               /\ npc' = "done"
               /\ UNCHANGED <<random, calls>>
          ELSE /\ random' = TRUE
               /\ npc' = "list"
               /\ calls' = [calls EXCEPT !.list = @ + 1]
               /\ UNCHANGED noteInfo
  /\ UNCHANGED <<envVars, store, pc, filesVars, hasVars, discoveryVars, err,
                 endVars, writes, logs, raised, ghostVars>>

\* lines 161-195: the user name resolves, the listing is scanned, and the scan
\* either returns or is started again with random set
UserResolve ==
  /\ npc = "user"
  /\ LET found == ScanListing(ListingOf(commentType, store), Username, random)
     IN IF found # Null
          THEN /\ noteInfo' = found
               /\ npc' = "done"
               /\ UNCHANGED <<random, calls>>
        ELSE IF random
          THEN /\ noteInfo' = Null
               /\ npc' = "done"
               /\ UNCHANGED <<random, calls>>
        ELSE /\ random' = TRUE
             /\ npc' = "list"
             /\ calls' = [calls EXCEPT !.list = @ + 1]
             /\ UNCHANGED noteInfo
  /\ UNCHANGED <<envVars, store, pc, filesVars, hasVars, discoveryVars, err,
                 endVars, writes, logs, raised, ghostVars>>

UserReject ==
  /\ npc = "user"
  /\ \E e \in ApiErrors("username") :
       /\ npc' = "failed"
       /\ raised' = Raise(e)
       /\ RejectJoin(e)
  /\ UNCHANGED <<envVars, store, random, noteInfo, filesVars, hasVars,
                 discoveryVars, calls, writes, ghostVars>>

\* lines 276-278: x => x.changes.map(x => x.new_path)
NewPaths(x) == [i \in DOMAIN x.changes |-> x.changes[i].new_path]

\* faulty variant: hasChangesetBeenAdded fetches the changed files itself, and
\* its fetch may see another state of the merge request
ChangesResolveOwnFetch ==
  /\ cf = "pending"
  /\ cf' = "ok"
  /\ changedFiles' \in ChangedFilesSet
  /\ changedPaths' = NewPaths(changedFiles')
  /\ hpc' = "done"
  /\ calls' = [calls EXCEPT !.showChanges = @ + 1]
  /\ \E own \in ChangedFilesSet : hasChangeset' = hasChangesetBeenAdded(own)
  /\ UNCHANGED <<envVars, store, pc, noteVars, discoveryVars, err, endVars,
                 writes, logs, raised, ghostVars>>

\* lines 266-269, 276-278, 198-209: MergeRequests.showChanges resolves; the
\* path list derived from it resolves and hasChangesetBeenAdded, which awaits
\* it, returns
ChangesResolve ==
  /\ cf = "pending"
  /\ cf' = "ok"
  /\ changedFiles' \in ChangedFilesSet
  /\ changedPaths' = NewPaths(changedFiles')
  /\ hpc' = "done"
  /\ hasChangeset' = hasChangesetBeenAdded(changedFiles')
  /\ UNCHANGED <<envVars, store, pc, noteVars, discoveryVars, err, endVars,
                 calls, writes, logs, raised, ghostVars>>

\* lines 266-269, 276, 201: MergeRequests.showChanges rejects; the derived
\* path list and hasChangesetBeenAdded reject with it
ChangesReject ==
  /\ cf = "pending"
  /\ \E e \in ApiErrors("showChanges") :
       /\ cf' = "failed"
       /\ changedFiles' = e
       /\ changedPaths' = e
       /\ hpc' = "failed"
       /\ raised' = Raise(e)
       /\ RejectJoin(e)
  /\ UNCHANGED <<envVars, store, noteVars, hasChangeset, discoveryVars, calls,
                 writes, ghostVars>>

\* lines 275-279: getChangedPackages resolves
DiscoveryResolve ==
  /\ dpc = "pending"
  /\ cf = "ok"
  /\ dpc' = "done"
  /\ discovery' \in DiscoveryResults
  /\ UNCHANGED <<envVars, store, pc, noteVars, filesVars, hasVars,
                 discoveryErr, errFromFetchingChangedFiles, captured, err, endVars, calls,
                 writes, logs, raised, ghostVars>>

\* lines 280-282, 287-290: getChangedPackages rejects with a ValidationError
DiscoveryValidationError ==
  /\ dpc = "pending"
  /\ \E e \in ValidationErrors :
       /\ discoveryErr' = e
       /\ errFromFetchingChangedFiles' =
            <<Text("<details><summary>An error occurred when fetching the changed packages and changesets in this MR</summary>"),
              Text(e.message),
              Text("</details>")>>
  /\ dpc' = "done"
  /\ discovery' = FallbackDiscovery
  /\ UNCHANGED <<envVars, store, pc, noteVars, filesVars, hasVars, captured,
                 err, endVars, calls, writes, logs, raised, ghostVars>>

\* faulty variant: the error-detail block is written for every error, not only for a
\* ValidationError
DiscoveryOtherErrorAnnotated ==
  /\ dpc = "pending"
  /\ \E e \in {DiscoveryError} \cup (IF cf = "failed" THEN {changedFiles} ELSE {}) :
       /\ discoveryErr' = e
       /\ errFromFetchingChangedFiles' =
            <<Text("<details><summary>An error occurred when fetching the changed packages and changesets in this MR</summary>"),
              Text(e.message),
              Text("</details>")>>
  /\ dpc' = "done"
  /\ discovery' = FallbackDiscovery
  /\ UNCHANGED <<envVars, store, pc, noteVars, filesVars, hasVars, captured,
                 err, endVars, calls, writes, logs, raised, ghostVars>>

\* lines 283-290: getChangedPackages rejects with any other error, the
\* rejection of the changed-files fetch included
DiscoveryOtherError ==
  /\ dpc = "pending"
  /\ \E e \in {DiscoveryError} \cup (IF cf = "failed" THEN {changedFiles} ELSE {}) :
       /\ discoveryErr' = e
       /\ captured' = Append(captured, e)
  /\ dpc' = "done"
  /\ discovery' = FallbackDiscovery
  /\ UNCHANGED <<envVars, store, pc, noteVars, filesVars, hasVars,
                 errFromFetchingChangedFiles, err, endVars, calls, writes,
                 logs, raised, ghostVars>>

\* lines 294-306
addChangesetUrl(changedPackages, humanId) ==
  [url |-> [project |-> CI_MERGE_REQUEST_PROJECT_URL,
            branch |-> mrBranch,
            file_name |-> humanId,
            file |-> getNewChangesetTemplate(changedPackages, CI_MERGE_REQUEST_TITLE),
            commit_message |-> GITLAB_ADD_CHANGESET_MESSAGE]]

\* faulty variant: the error-detail block is not appended
prCommentWithoutError(humanId) ==
  IF hasChangeset
    THEN getApproveMessage(CI_MERGE_REQUEST_SOURCE_BRANCH_SHA,
                           addChangesetUrl(discovery.changedPackages, humanId),
                           discovery.releasePlan)
    ELSE getAbsentMessage(CI_MERGE_REQUEST_SOURCE_BRANCH_SHA,
                          addChangesetUrl(discovery.changedPackages, humanId),
                          discovery.releasePlan)

\* lines 308-312
prComment(humanId) ==
  (IF hasChangeset
     THEN getApproveMessage(CI_MERGE_REQUEST_SOURCE_BRANCH_SHA,
                            addChangesetUrl(discovery.changedPackages, humanId),
                            discovery.releasePlan)
     ELSE getAbsentMessage(CI_MERGE_REQUEST_SOURCE_BRANCH_SHA,
                           addChangesetUrl(discovery.changedPackages, humanId),
                           discovery.releasePlan))
  \o errFromFetchingChangedFiles

\* faulty variant: the edit does not return, so the create call follows it
WriteCallsFallThrough(body) ==
  CASE commentType = "discussion" ->
         (IF noteInfo # Null
            THEN <<[op |-> "editDiscussionNote", discussionId |-> noteInfo.discussionId,
                    noteId |-> noteInfo.noteId, body |-> body]>>
            ELSE <<>>)
         \o <<[op |-> "createDiscussion", discussionId |-> 0, noteId |-> 0, body |-> body]>>
    [] commentType = "note" ->
         (IF noteInfo # Null
            THEN <<[op |-> "editNote", discussionId |-> 0,
                    noteId |-> noteInfo.noteId, body |-> body]>>
            ELSE <<>>)
         \o <<[op |-> "createNote", discussionId |-> 0, noteId |-> 0, body |-> body]>>
    [] OTHER -> <<>>

\* faulty variant: an unrecognised comment type is handled as "note"
WriteCallsDefaultNote(body) ==
  IF commentType = "discussion"
    THEN IF noteInfo # Null
           THEN <<[op |-> "editDiscussionNote", discussionId |-> noteInfo.discussionId,
                   noteId |-> noteInfo.noteId, body |-> body]>>
           ELSE <<[op |-> "createDiscussion", discussionId |-> 0, noteId |-> 0, body |-> body]>>
    ELSE IF noteInfo # Null
           THEN <<[op |-> "editNote", discussionId |-> 0,
                   noteId |-> noteInfo.noteId, body |-> body]>>
           ELSE <<[op |-> "createNote", discussionId |-> 0, noteId |-> 0, body |-> body]>>

\* faulty variant: in discussion mode a located note is edited with the note
\* primitive, by its note id alone
WriteCallsEditByNoteId(body) ==
  CASE commentType = "discussion" ->
         IF noteInfo # Null
           THEN <<[op |-> "editNote", discussionId |-> 0,
                   noteId |-> noteInfo.noteId, body |-> body]>>
           ELSE <<[op |-> "createDiscussion", discussionId |-> 0, noteId |-> 0, body |-> body]>>
    [] commentType = "note" ->
         IF noteInfo # Null
           THEN <<[op |-> "editNote", discussionId |-> 0,
                   noteId |-> noteInfo.noteId, body |-> body]>>
           ELSE <<[op |-> "createNote", discussionId |-> 0, noteId |-> 0, body |-> body]>>
    [] OTHER -> <<>>

\* lines 314-351: the write calls the switch issues for a body; none when it
\* throws
WriteCalls(body) ==
  CASE commentType = "discussion" ->
         IF noteInfo # Null
           THEN <<[op |-> "editDiscussionNote", discussionId |-> noteInfo.discussionId,
                   noteId |-> noteInfo.noteId, body |-> body]>>
           ELSE <<[op |-> "createDiscussion", discussionId |-> 0, noteId |-> 0, body |-> body]>>
    [] commentType = "note" ->
         IF noteInfo # Null
           THEN <<[op |-> "editNote", discussionId |-> 0,
                   noteId |-> noteInfo.noteId, body |-> body]>>
           ELSE <<[op |-> "createNote", discussionId |-> 0, noteId |-> 0, body |-> body]>>
    [] OTHER -> <<>>

\* faulty variant: the write does not wait for the changeset-presence check
JoinResolveEarly ==
  /\ pc = "join"
  /\ npc = "done"
  /\ dpc = "done"
  /\ \E humanId \in HumanIds :
       LET issued == WriteCalls(prComment(humanId))
       IN IF issued # <<>>
            THEN /\ writes' = writes \o issued
                 /\ pc' = "write"
                 /\ UNCHANGED <<err, endVars, logs>>
            ELSE /\ CatchBlock(ConfigError)
                 /\ UNCHANGED writes
  /\ UNCHANGED <<envVars, store, noteVars, filesVars, hasVars, discoveryVars,
                 calls, raised, ghostVars>>

\* lines 271-351: the join resolves, the body is composed and the write call
\* is issued, or the switch throws into the catch block
JoinResolve ==
  /\ pc = "join"
  /\ npc = "done"
  /\ hpc = "done"
  /\ dpc = "done"
  /\ \E humanId \in HumanIds :
       LET issued == WriteCalls(prComment(humanId))
       IN IF issued # <<>>
            THEN /\ writes' = writes \o issued
                 /\ pc' = "write"
                 /\ UNCHANGED <<err, endVars, logs>>
            ELSE /\ CatchBlock(ConfigError)
                 /\ UNCHANGED writes
  /\ UNCHANGED <<envVars, store, noteVars, filesVars, hasVars, discoveryVars,
                 calls, raised, ghostVars>>

\* what the platform holds once it has carried out a write call
Applied(threads, call, login) ==
  IF call.op \in {"createDiscussion", "createNote"}
    THEN WithNewNote(threads, login, call.body)
    ELSE WithEditedNote(threads, call.discussionId, call.noteId, call.body)

\* the returned write call resolves, and with it comment()
WriteResolve ==
  /\ pc = "write"
  /\ \E login \in BotLogins : store' = Applied(store, writes[Len(writes)], login)
  /\ pc' = "done"
  /\ outcome' = "returned"
  /\ UNCHANGED <<envVars, noteVars, filesVars, hasVars, discoveryVars, err,
                 thrown, calls, writes, logs, raised, ghostVars>>

\* the returned write call rejects: it was returned without await, so the
\* rejection passes the catch block by and becomes the rejection of comment()
WriteReject ==
  /\ pc = "write"
  /\ \E e \in ApiErrors("write") :
       /\ thrown' = e
       /\ raised' = Raise(e)
  /\ pc' = "done"
  /\ outcome' = "threw"
  /\ UNCHANGED <<envVars, store, noteVars, filesVars, hasVars, discoveryVars,
                 err, calls, writes, logs, ghostVars>>

\* line 369
Rethrow ==
  /\ pc' = "done"
  /\ outcome' = "threw"
  /\ thrown' = err

\* faulty variant: request.text() is read outside the try block, so its failure
\* becomes the rejection of comment()
LogRequestUncaught ==
  /\ pc = "logRequest"
  /\ \E readable \in BOOLEAN :
       IF readable
         THEN /\ logs' = Append(logs, "request:")
              /\ pc' = "logResponse"
              /\ UNCHANGED endVars
         ELSE /\ pc' = "done"
              /\ outcome' = "threw"
              /\ thrown' = [name |-> "TypeError", isError |-> TRUE, hasCause |-> FALSE,
                            causeKeys |-> {}, message |-> "Body is unusable"]
              /\ UNCHANGED logs
  /\ UNCHANGED <<envVars, store, noteVars, filesVars, hasVars, discoveryVars,
                 err, calls, writes, raised, ghostVars>>

\* lines 358-362: request.text() resolves or throws; either way the block goes on
LogRequest ==
  /\ pc = "logRequest"
  /\ \E readable \in BOOLEAN :
       logs' = Append(logs, IF readable THEN "request:"
                            ELSE "The error's request could not be used as plain text")
  /\ pc' = "logResponse"
  /\ UNCHANGED <<envVars, store, noteVars, filesVars, hasVars, discoveryVars,
                 err, endVars, calls, writes, raised, ghostVars>>

\* lines 363-369
LogResponse ==
  /\ pc = "logResponse"
  /\ \E readable \in BOOLEAN :
       logs' = Append(logs, IF readable THEN "response:"
                            ELSE "The error's response could not be used as plain text")
  /\ Rethrow
  /\ UNCHANGED <<envVars, store, noteVars, filesVars, hasVars, discoveryVars,
                 err, calls, writes, raised, ghostVars>>

\* the next pipeline of the same merge request runs comment() in a new process
NextRun ==
  /\ pc = "done"
  /\ runs < MaxRuns
  /\ runs' = runs + 1
  /\ allOk' = (allOk /\ outcome = "returned")
  /\ pc' = "start"
  /\ npc' = "idle"
  /\ random' = FALSE
  /\ noteInfo' = Null
  /\ cf' = "idle"
  /\ changedFiles' = [changes |-> <<>>]
  /\ changedPaths' = <<>>
  /\ hpc' = "idle"
  /\ hasChangeset' = FALSE
  /\ dpc' = "idle"
  /\ discovery' = FallbackDiscovery
  /\ discoveryErr' = NoError
  /\ errFromFetchingChangedFiles' = <<>>
  /\ err' = NoError
  /\ outcome' = "running"
  /\ thrown' = NoError
  /\ calls' = NoCalls
  /\ writes' = <<>>
  /\ captured' = <<>>
  /\ logs' = <<>>
  /\ raised' = {}
  /\ priorBot' = {}
  /\ UNCHANGED <<envVars, store>>

Next ==
  \/ Begin
  \/ ListResolve
  \/ ListReject
  \/ UserResolve
  \/ UserReject
  \/ ChangesResolve
  \/ ChangesReject
  \/ DiscoveryResolve
  \/ DiscoveryValidationError
  \/ DiscoveryOtherError
  \/ JoinResolve
  \/ WriteResolve
  \/ WriteReject
  \/ LogRequest
  \/ LogResponse

Spec == Init /\ [][Next]_vars

\* ------------------------------------------------------- sequential runs

\* merge requests on which the bot has not commented yet
InitSeq ==
  /\ mrBranch = FeatureBranch
  /\ commentType \in CommentTypes
  /\ repoPlan = PlanOne
  /\ store \in {st \in PriorStores : Len(AllNotes(st)) <= 1 /\ BotComments(st) = {}}
  /\ FreshRun
  /\ runs = 1
  /\ allOk = TRUE

NextSeq == Next \/ NextRun

SpecSeq == InitSeq /\ [][NextSeq]_vars

\* ------------------------------------------------------- the renderers

\* runs in note mode on a merge request without notes, over the release plans
InitRender ==
  /\ mrBranch = FeatureBranch
  /\ commentType = "note"
  /\ repoPlan \in ReleasePlans
  /\ store = <<>>
  /\ FreshRun
  /\ runs = 1
  /\ allOk = TRUE

SpecRender == InitRender /\ [][Next]_vars

\* ------------------------------------------------------- the name matcher

\* author logins of the randomized form, for the user name and for others
RandomFormLogins ==
  {Username \o <<"_","a","1">>,
   Username \o <<"_","A","1">>,
   Username \o <<"_","a","1","_","b","2">>,
   Username \o <<"7","x","_","a","b","1","2">>,
   <<"p","r","o","j","e","c","t","_","1","2","_","b","o","t","_","a","1">>,
   <<"g","r","o","u","p","_","1","_","b","o","t","_","a","1">>,
   <<"P","R","O","J","E","C","T","_","1","_","B","O","T","_","A","1">>}

\* author logins that are not of the randomized form
PlainLogins ==
  {Username,
   Username \o <<"_">>,
   Username \o <<"_","a","-","1">>,
   <<"x">> \o Username \o <<"_","a","1">>,
   <<"p","r","o","j","e","c","t","_","_","b","o","t","_","a","1">>,
   <<"p","r","o","j","e","c","t","_","1","_","b","o","_","a","1">>,
   <<"s","o","m","e","o","n","e","e","l","s","e">>}

\* merge requests holding one note, by any of these authors, with or without
\* the marker
MatcherStores ==
  {Threads(<<[id |-> 1, author |-> [username |-> login], body |-> body]>>, {}) :
     login \in RandomFormLogins \cup PlainLogins, body \in PriorBodies}

InitMatcher ==
  /\ mrBranch = FeatureBranch
  /\ commentType = "note"
  /\ repoPlan = PlanOne
  /\ store \in MatcherStores
  /\ FreshRun
  /\ runs = 1
  /\ allOk = TRUE

SpecMatcher == InitMatcher /\ [][Next]_vars

\* ------------------------------------------------------- the locator alone

\* the steps of getNoteInfo, from the call that starts it
NextLocator ==
  \/ Begin
  \/ ListResolve
  \/ ListReject
  \/ UserResolve
  \/ UserReject

\* lines 157-159: the listing call settles
ListSettles == ListReject \/ ListResolve

\* line 161: getUsername settles
UserSettles == UserReject \/ UserResolve

\* every call getNoteInfo awaits settles in the end
SpecLocator ==
  Init /\ [][NextLocator]_vars /\ WF_vars(ListSettles) /\ WF_vars(UserSettles)

\* ------------------------------------------------------------- properties

InMergeRequestPipeline ==
  mrBranch # NoBranch /\ ~StartsWith(mrBranch, StrChangesetRelease)

ValidMode == commentType \in {"discussion", "note"}

CreateOps == {"createDiscussion", "createNote"}

EditOps == {"editDiscussionNote", "editNote"}

\* the run has issued or finished its write step and no lookup or fetch failed
WriteStepReached ==
  /\ pc \in {"write", "done"}
  /\ \A e \in raised : e.name = "write"

\* the join of the three branches has resolved
JoinResolved == npc = "done" /\ hpc = "done" /\ dpc = "done" /\ pc # "join"

MarkedNote(noteId) ==
  \E d \in DOMAIN store : \E i \in DOMAIN store[d].notes :
    /\ store[d].notes[i].id = noteId
    /\ Includes(store[d].notes[i].body, generatedByBotNote)

ErrorSummary ==
  Text("<details><summary>An error occurred when fetching the changed packages and changesets in this MR</summary>")

\* C1: on a merge request that holds a bot comment (written under the user
\* name or under a random login of it, with the marker), a run in discussion
\* or note mode issues an edit call on such a comment and no create call.
C1_PriorBotCommentIsEdited ==
  (priorBot # {} /\ InMergeRequestPipeline /\ ValidMode /\ WriteStepReached) =>
    /\ Len(writes) = 1
    /\ writes[1].op \in EditOps
    /\ writes[1].noteId \in priorBot

\* C2: on a merge request with no bot comment, a run in an applicable context
\* issues exactly one create call and no edit call, and the created body
\* contains the sentinel.
C2_NoPriorCommentCreatesOne ==
  (priorBot = {} /\ InMergeRequestPipeline /\ ValidMode) =>
    /\ Len(writes) <= 1
    /\ \A i \in DOMAIN writes :
         /\ writes[i].op =
              (IF commentType = "discussion" THEN "createDiscussion" ELSE "createNote")
         /\ Includes(writes[i].body, "Generated By Changesets GitLab Bot")
    /\ WriteStepReached => Len(writes) = 1

C2_Witness ==
  /\ pc = "done"
  /\ outcome = "returned"
  /\ priorBot = {}
  /\ Len(writes) = 1
  /\ writes[1].op = "createNote"
  /\ \E d \in DOMAIN store : \E i \in DOMAIN store[d].notes :
       /\ store[d].notes[i].author.username = Username
       /\ ~Includes(store[d].notes[i].body, generatedByBotNote)

\* C3: starting from a merge request without a bot comment, after any number
\* of successful sequential runs in one comment mode the merge request holds
\* at most one bot comment.
C3_AtMostOneBotComment ==
  (allOk /\ (pc = "done" => outcome = "returned")) =>
    Cardinality(BotComments(store)) <= 1

\* C4: every execution of comment(), also one that ends in an error, issues at
\* most one write call.
C4_AtMostOneWrite == Len(writes) <= 1

C4_Witness == pc = "done" /\ outcome = "threw" /\ Len(writes) = 1

\* C5: a note whose body lacks the sentinel is never returned by the locator
\* and never the target of an edit call, whoever its author is.
C5_UnmarkedNoteNeverTarget ==
  /\ noteInfo # Null => MarkedNote(noteInfo.noteId)
  /\ \A i \in DOMAIN writes :
       writes[i].op \in EditOps => MarkedNote(writes[i].noteId)

C5_Witness ==
  /\ random
  /\ noteInfo # Null
  /\ \E d \in DOMAIN store : \E i \in DOMAIN store[d].notes :
       /\ store[d].notes[i].id < noteInfo.noteId
       /\ store[d].notes[i].author.username = RandomLogin
       /\ ~Includes(store[d].notes[i].body, generatedByBotNote)

\* the body is a "No Changeset found" or "Changeset detected" block, which
\* ends with the sentinel line, followed by the error block holding `message`
BlockThenErrorBlock(body, message) ==
  LET n == Len(body)
  IN /\ n >= 7
     /\ body[1] \in {Text("No Changeset found"), Text("Changeset detected")}
     /\ SubSeq(body, n - 5, n - 3) = <<Text("__"), Text(generatedByBotNote), Text("__")>>
     /\ SubSeq(body, n - 2, n) = <<ErrorSummary, Text(message), Text("</details>")>>
     /\ \A i \in 1..(n - 3) : body[i] # ErrorSummary

\* C6: a validation error of changed-package discovery does not abort the run:
\* the discovery result is the single-package placeholder with a null release
\* plan, the error never reaches the catch block, and once the other two
\* branches are done the one create-or-edit call is issued with a body made of
\* the changeset block followed by the error block with the message.
C6_ValidationErrorDegrades ==
  discoveryErr.name = "ValidationError" =>
    /\ discovery = [changedPackages |-> <<"@fake-scope/fake-pkg">>, releasePlan |-> Null]
    /\ err.name # "ValidationError"
    /\ thrown.name # "ValidationError"
    /\ (JoinResolved /\ ValidMode) =>
         /\ Len(writes) = 1
         /\ BlockThenErrorBlock(writes[1].body, discoveryErr.message)

C6_Witness ==
  /\ pc = "done"
  /\ outcome = "returned"
  /\ discoveryErr.name = "ValidationError"
  /\ Len(writes) = 1
  /\ writes[1].op \in EditOps

\* C7: a discovery failure that is not a validation error is given to the
\* error-tracking sink, the placeholder is used, the run does not fail because
\* of it and issues its one create-or-edit call; the error block is written if
\* and only if the failure was a validation error.
C7_OtherErrorReported ==
  /\ discoveryErr.name \notin {"none", "ValidationError"} =>
       /\ \E i \in DOMAIN captured : captured[i] = discoveryErr
       /\ discovery = [changedPackages |-> <<"@fake-scope/fake-pkg">>, releasePlan |-> Null]
  /\ discoveryErr.name = "DiscoveryError" =>
       /\ err # discoveryErr
       /\ thrown # discoveryErr
       /\ (JoinResolved /\ ValidMode) => Len(writes) = 1
  /\ errFromFetchingChangedFiles # <<>> <=> discoveryErr.name = "ValidationError"
  /\ \A i \in DOMAIN writes :
       Includes(writes[i].body, ErrorSummary.t) <=> discoveryErr.name = "ValidationError"

C7_Witness ==
  /\ pc = "done"
  /\ outcome = "returned"
  /\ discoveryErr.name = "DiscoveryError"
  /\ Len(writes) = 1
  /\ Len(captured) = 1

\* C8 as stated: every platform API error raised during the run is the error
\* comment() rejects with.
C8_EveryApiErrorRethrown ==
  pc = "done" => \A e \in raised : outcome = "threw" /\ thrown = e

\* C8, amended: when platform API errors are raised during the run, comment()
\* rejects with one of them, unchanged: the one the catch block caught (the
\* first to reject the join) or the one the write call rejected with.  What the
\* reading of the diagnostic data does never changes the error.
C8_FirstApiErrorRethrown ==
  /\ (pc \in {"logRequest", "logResponse"} /\ raised # {}) => err \in raised
  /\ (pc = "done" /\ raised # {}) => (outcome = "threw" /\ thrown \in raised)
  /\ (pc = "done" /\ err # NoError) => (outcome = "threw" /\ thrown = err)

C8_Witness ==
  /\ pc = "done"
  /\ outcome = "threw"
  /\ thrown \in raised
  /\ Cardinality(raised) = 2
  /\ thrown.hasCause
  /\ logs = <<"description",
              "The error's request could not be used as plain text",
              "The error's response could not be used as plain text">>

\* C9: with a comment type that is neither "discussion" nor "note" no write
\* call is ever issued, and once the three branches have completed comment()
\* ends with the configuration error, whatever the locator found.
C9_InvalidModeNeverWrites ==
  commentType \notin {"discussion", "note"} =>
    /\ writes = <<>>
    /\ JoinResolved =>
         /\ err.name = "InvalidCommentType"
         /\ pc = "done" => (outcome = "threw" /\ thrown.name = "InvalidCommentType")

C9_Witness ==
  /\ commentType \notin {"discussion", "note"}
  /\ pc = "done"
  /\ thrown.name = "InvalidCommentType"
  /\ noteInfo # Null

\* C10: without a source branch, or on a source branch that starts with
\* "changeset-release", comment() returns without an error and issues no
\* platform API call: no listing, no user lookup, no changed-files fetch, no
\* write.
C10_NotApplicableNoCalls ==
  (mrBranch = <<>> \/ StartsWith(mrBranch, StrChangesetRelease)) =>
    /\ calls = [list |-> 0, username |-> 0, showChanges |-> 0]
    /\ writes = <<>>
    /\ raised = {}
    /\ pc \in {"start", "done"}
    /\ pc = "done" => outcome = "returned"
    /\ pc = "start" => outcome = "running"

C10_Witness ==
  /\ mrBranch = ReleaseBranch
  /\ Len(mrBranch) > Len(StrChangesetRelease)
  /\ pc = "done"
  /\ outcome = "returned"

\* C11: a run that passes the applicability checks invokes the changed-files
\* fetch exactly once (a run that does not pass them never does), the
\* changeset-presence check is computed from the result of that invocation,
\* the path list given to changed-package discovery is derived from the same
\* result, and discovery resolves only once that result is there; a rejection
\* of the fetch reaches both.
C11_SingleChangedFilesFetch ==
  /\ calls.showChanges = (IF InMergeRequestPipeline /\ pc # "start" THEN 1 ELSE 0)
  /\ hpc = "done" =>
       /\ cf = "ok"
       /\ hasChangeset = hasChangesetBeenAdded(changedFiles)
  /\ cf = "ok" =>
       /\ hpc = "done"
       /\ changedPaths = [i \in DOMAIN changedFiles.changes |->
                            changedFiles.changes[i].new_path]
  /\ cf = "failed" => (hpc = "failed" /\ changedPaths = changedFiles)
  /\ (dpc = "done" /\ discoveryErr = NoError) => cf = "ok"

C11_Witness ==
  /\ pc = "done"
  /\ outcome = "returned"
  /\ calls.showChanges = 1
  /\ calls.list = 2
  /\ hasChangeset
  /\ discovery.releasePlan # Null
  /\ changedPaths = <<SourceFile.new_path, AddedChangeset.new_path>>

\* the author of note `noteId` of thread `discussionId`
AuthorOf(threads, discussionId, noteId) ==
  LET d == CHOOSE k \in DOMAIN threads : threads[k].id = discussionId
      i == CHOOSE k \in DOMAIN threads[d].notes : threads[d].notes[k].id = noteId
  IN threads[d].notes[i].author.username

LocatorSteps ==
  CASE npc = "list" -> IF random THEN 2 ELSE 4
    [] npc = "user" -> IF random THEN 1 ELSE 3
    [] OTHER -> 0

\* the run has not written yet: the listing is what the scans saw
BeforeWrite == pc \in {"join", "write", "logRequest", "logResponse"}

\* C13, the scans: the listing call is issued at most twice per run; the second
\* scan, the one that accepts the randomized-name pattern, is under way or done
\* if and only if the first found nothing; a scan that finds a note returns
\* it; and the result is null if and only if neither scan found a note.
C13_TwoScans ==
  LET listing == ListingOf(commentType, store)
      first == ScanListing(listing, Username, FALSE)
      second == ScanListing(listing, Username, TRUE)
  IN /\ calls.list <= 2
     /\ calls.username <= calls.list
     /\ random <=> calls.list = 2
     /\ (random /\ BeforeWrite) => first = Null
     /\ (npc = "done" /\ BeforeWrite) =>
          /\ ~random <=> first # Null
          /\ noteInfo = (IF random THEN second ELSE first)
          /\ noteInfo = Null <=> (first = Null /\ second = Null)

\* C13: getNoteInfo ends after at most two scans.  Every step of the locator
\* brings it nearer to its end, the scans are as C13_TwoScans says, and when
\* every awaited call settles the locator returns or fails.
C13_LocatorTerminates ==
  /\ []C13_TwoScans
  /\ [][npc' # npc /\ npc # "idle" => LocatorSteps' < LocatorSteps]_vars
  /\ (npc = "list") ~> (npc \in {"done", "failed"})

C13_Witness ==
  /\ npc = "done"
  /\ random
  /\ calls.list = 2
  /\ calls.username = 2
  /\ noteInfo # Null
  /\ BeforeWrite

\* C14: a write call is issued only when the note lookup, the
\* changeset-presence check and the changed-package discovery have all
\* completed, and it is issued in the step in which the join resolves; a run
\* whose note lookup or changed-files fetch fails issues no write call.
C14_NoWriteBeforeJoin ==
  /\ [](writes # <<>> => (npc = "done" /\ hpc = "done" /\ dpc = "done"))
  /\ []((npc = "failed" \/ cf = "failed") => writes = <<>>)
  /\ [][writes' # writes =>
          /\ npc = "done" /\ hpc = "done" /\ dpc = "done"
          /\ pc = "join" /\ pc' = "write"]_vars

C14_Witness ==
  /\ pc = "done"
  /\ outcome = "threw"
  /\ cf = "failed"
  /\ npc = "done"
  /\ dpc = "done"
  /\ writes = <<>>

\* the handle of the first of the merge request's notes, in listing order,
\* whose position is in `accepted`; null when there is none
FirstAccepted(accepted) ==
  LET notes == AllNotes(store)
      k == CHOOSE i \in accepted : \A j \in accepted : i <= j
      d == CHOOSE t \in DOMAIN store :
             \E i \in DOMAIN store[t].notes : store[t].notes[i].id = notes[k].id
  IN IF accepted = {} THEN Null
     ELSE IF commentType = "discussion"
       THEN [kind |-> "discussion", discussionId |-> store[d].id, noteId |-> notes[k].id]
       ELSE [kind |-> "note", noteId |-> notes[k].id]

\* C15: the handle is a function of the listing and the user name.  A scan
\* of the listing the locator has fetched returns the first note in listing
\* order that it accepts: a marked note of the user name, or, in the
\* randomized-name scan over flat notes, a marked note of a random login of it.  The locator returns a marked note of the
\* exact user name whenever there is one, wherever it stands, and a
\* randomized-name match only when there is none.
C15_FirstMatchExactPreferred ==
  LET notes == AllNotes(store)
      marked == {i \in DOMAIN notes :
                   \E k \in DOMAIN notes[i].body :
                     notes[i].body[k] = [t |-> "Generated By Changesets GitLab Bot"]}
      exact == {i \in marked : notes[i].author.username = Username}
      rand == {i \in marked : notes[i].author.username = RandomLogin}
      flat == commentType # "discussion"
      listing == ListingOf(commentType, store)
  IN /\ npc = "user" =>
          /\ ScanListing(listing, Username, FALSE) = FirstAccepted(exact)
          /\ ScanListing(listing, Username, TRUE) =
               FirstAccepted(IF flat THEN exact \cup rand ELSE exact)
     /\ (npc = "done" /\ BeforeWrite) =>
          noteInfo = FirstAccepted(IF exact # {} THEN exact
                                   ELSE IF flat THEN rand ELSE {})

C15_Witness ==
  /\ commentType = "note"
  /\ npc = "done"
  /\ BeforeWrite
  /\ Len(AllNotes(store)) = 2
  /\ AllNotes(store)[1].author.username = RandomLogin
  /\ Includes(AllNotes(store)[1].body, generatedByBotNote)
  /\ noteInfo = [kind |-> "note", noteId |-> AllNotes(store)[2].id]

\* thread `discussionId` of the merge request holds note `noteId`
ThreadHolds(discussionId, noteId) ==
  \E d \in DOMAIN store :
    /\ store[d].id = discussionId
    /\ \E i \in DOMAIN store[d].notes : store[d].notes[i].id = noteId

\* C16: every write call is a call of the configured mode's primitive.  In
\* discussion mode it is create-discussion or edit-discussion-note, and the
\* edit carries the discussion id and the note id of the located note, which
\* is a note of that discussion; in note mode it is create-note or edit-note,
\* and the edit carries the located note id.  A note is edited exactly when
\* the locator returned a handle.
C16_ModePrimitiveOnly ==
  \A i \in DOMAIN writes :
    /\ commentType \in {"discussion", "note"}
    /\ commentType = "discussion" =>
         /\ writes[i].op \in {"createDiscussion", "editDiscussionNote"}
         /\ writes[i].op = "editDiscussionNote" =>
              /\ noteInfo # Null
              /\ writes[i].discussionId = noteInfo.discussionId
              /\ writes[i].noteId = noteInfo.noteId
              /\ ThreadHolds(writes[i].discussionId, writes[i].noteId)
    /\ commentType = "note" =>
         /\ writes[i].op \in {"createNote", "editNote"}
         /\ writes[i].op = "editNote" =>
              /\ noteInfo # Null
              /\ writes[i].noteId = noteInfo.noteId
              /\ \E d \in DOMAIN store : ThreadHolds(store[d].id, writes[i].noteId)
    /\ writes[i].op \in {"createDiscussion", "createNote"} <=> noteInfo = Null

C16_Witness ==
  /\ commentType = "discussion"
  /\ pc = "done"
  /\ outcome = "returned"
  /\ Len(writes) = 1
  /\ writes[1].op = "editDiscussionNote"
  /\ writes[1].discussionId = 2
  /\ writes[1].noteId = 2

\* the file is new and its path is ".changeset/", then a name that is not
\* empty, then ".md", and is not ".changeset/README.md"
QualifyingChangeset(file) ==
  /\ file.new_file = TRUE
  /\ \E n \in 1..(Len(file.new_path) - 14) :
       file.new_path =
         <<".","c","h","a","n","g","e","s","e","t","/">>
           \o SubSeq(file.new_path, 12, 11 + n) \o <<".","m","d">>
  /\ file.new_path #
       <<".","c","h","a","n","g","e","s","e","t","/","R","E","A","D","M","E",".","m","d">>

\* C17: the body written is the "Changeset detected" variant if and only if
\* one of the changed files is a newly added file under ".changeset/" with a
\* name ending in ".md" other than ".changeset/README.md"; otherwise it is the
\* "No Changeset found" variant.  A changeset file that is modified and not
\* new, and ".changeset/README.md", do not select the detected variant.
C17_DetectedIffAddedChangeset ==
  /\ hpc = "done" =>
       (hasChangeset <=>
          \E k \in DOMAIN changedFiles.changes :
            QualifyingChangeset(changedFiles.changes[k]))
  /\ \A i \in DOMAIN writes :
       /\ writes[i].body[1] \in {Text("Changeset detected"), Text("No Changeset found")}
       /\ writes[i].body[1] = Text("Changeset detected") <=>
            \E k \in DOMAIN changedFiles.changes :
              QualifyingChangeset(changedFiles.changes[k])
       /\ ~(Includes(writes[i].body, "Changeset detected")
             /\ Includes(writes[i].body, "No Changeset found"))

C17_Witness ==
  /\ pc = "done"
  /\ outcome = "returned"
  /\ cf = "ok"
  /\ changedFiles.changes =
       <<ModifiedChangeset, AddedReadme, AddedEmptyName, AddedMdx, AddedElsewhere>>
  /\ Len(writes) = 1
  /\ writes[1].body[1] = Text("No Changeset found")

SummaryOpen == "<details><summary>This MR includes"

\* what the two renderers return for a release plan
Rendered(releasePlan) ==
  {getAbsentMessage(CI_MERGE_REQUEST_SOURCE_BRANCH_SHA, Text("url"), releasePlan),
   getApproveMessage(CI_MERGE_REQUEST_SOURCE_BRANCH_SHA, Text("url"), releasePlan)}

\* C18 as stated: every body a run writes, whichever renderer made it, holds
\* the collapsible release-plan summary, and the summary reads "no changesets"
\* when the plan is null or has no changesets; so it does in the body written
\* after a discovery failure.
C18_SummaryAlways ==
  \A i \in DOMAIN writes :
       /\ Includes(writes[i].body, SummaryOpen)
       /\ (discovery.releasePlan = Null \/ discovery.releasePlan.changesets = <<>>) =>
            Includes(writes[i].body, "no changesets")

\* C18, amended: both renderers embed the collapsible summary for a release
\* plan that is not null, and it reads "no changesets" exactly when the plan
\* has no changesets; for a null plan neither renderer embeds a summary, so the
\* body written after a discovery failure holds no summary and no
\* "no changesets".
C18_SummaryUnlessNullPlan ==
  /\ \A body \in Rendered(repoPlan) :
       /\ Includes(body, SummaryOpen)
       /\ Includes(body, "</details>")
       /\ Includes(body, "no changesets") <=> repoPlan.changesets = <<>>
  /\ \A body \in Rendered(Null) :
       /\ ~Includes(body, SummaryOpen)
       /\ ~Includes(body, "no changesets")
  /\ \A i \in DOMAIN writes :
       IF discovery.releasePlan = Null
         THEN /\ discoveryErr # NoError
              /\ ~Includes(writes[i].body, SummaryOpen)
              /\ ~Includes(writes[i].body, "no changesets")
         ELSE /\ discoveryErr = NoError
              /\ Includes(writes[i].body, SummaryOpen)
              /\ Includes(writes[i].body, "no changesets")
                   <=> discovery.releasePlan.changesets = <<>>

C18_Witness ==
  /\ pc = "done"
  /\ outcome = "returned"
  /\ discoveryErr.name = "ValidationError"
  /\ discovery.releasePlan = Null
  /\ repoPlan.changesets = <<>>
  /\ Len(writes) = 1
  /\ ~Includes(writes[1].body, "no changesets")
  /\ Includes(writes[1].body, "No Changeset found")

\* the segments of `body` after the first `from` and before the next `to`
Between(body, from, to) ==
  LET a == CHOOSE i \in DOMAIN body :
             body[i] = Text(from) /\ \A j \in 1..(i - 1) : body[j] # Text(from)
      b == CHOOSE i \in (a + 1)..Len(body) :
             body[i] = Text(to) /\ \A j \in (a + 1)..(i - 1) : body[j] # Text(to)
  IN SubSeq(body, a + 1, b - 1)

\* the positions of the plan's entries whose bump type is not "none"
Qualifying(releasePlan) ==
  {i \in DOMAIN releasePlan.releases : releasePlan.releases[i].type # "none"}

\* the table of the qualifying entries, in the plan's order, or the placeholder
ExpectedTable(releasePlan) ==
  LET q == Qualifying(releasePlan)
      entry(k) == releasePlan.releases[NthSmallest(q, k)]
      label(type) == CASE type = "major" -> "Major"
                       [] type = "minor" -> "Minor"
                       [] type = "patch" -> "Patch"
  IN IF q = {}
       THEN <<Text("When changesets are added to this MR, you'll see the packages")>>
       ELSE <<Text("Name"), Text("Type")>>
            \o [j \in 1..(2 * Cardinality(q)) |->
                  IF j % 2 = 1 THEN Text(entry((j + 1) \div 2).name)
                  ELSE Text(label(entry(j \div 2).type))]

\* "1 package" for one entry, "N packages" for none or for two and more
ExpectedCount(releasePlan) ==
  LET n == Cardinality(Qualifying(releasePlan))
  IN IF n = 1 THEN <<Text("1 package")>>
     ELSE <<Text(IF n = 0 THEN "0" ELSE <<"1", "2", "3", "4", "5", "6">>[n]),
            Text("packages")>>

\* C19 as stated: for every release plan, in every body written for it, the
\* table lists exactly the entries whose type is not "none", or the
\* placeholder when there is none, and the summary line reads "1 package" for
\* one such entry and "N packages" for none or for two and more.
C19_TableAndCountEveryPlan ==
  \A i \in DOMAIN writes :
    discovery.releasePlan # Null =>
      /\ Between(writes[i].body, "</summary>", "</details>")
           = ExpectedTable(discovery.releasePlan)
      /\ Between(writes[i].body, SummaryOpen, "</summary>")
           = <<Text("changesets to release")>> \o ExpectedCount(discovery.releasePlan)

\* C19, amended: for every release plan the table lists exactly the entries
\* whose type is not "none", in the plan's order, or the placeholder when there
\* is none; when the plan holds a changeset the summary line reads "1 package"
\* for one such entry and "N packages" for none or for two and more; when the
\* plan holds no changeset the summary line reads "no changesets" and gives no
\* count.
C19_TableAndCount ==
  /\ \A body \in Rendered(repoPlan) :
       /\ Between(body, "</summary>", "</details>") = ExpectedTable(repoPlan)
       /\ Between(body, SummaryOpen, "</summary>") =
            (IF repoPlan.changesets # <<>>
               THEN <<Text("changesets to release")>> \o ExpectedCount(repoPlan)
               ELSE <<Text("no changesets")>>)
  /\ \A i \in DOMAIN writes :
       discovery.releasePlan # Null =>
         /\ discovery.releasePlan = repoPlan
         /\ \E body \in Rendered(repoPlan) :
              Between(writes[i].body, SummaryOpen, "</details>")
                = Between(body, SummaryOpen, "</details>")

C19_Witness ==
  /\ pc = "done"
  /\ outcome = "returned"
  /\ Len(writes) = 1
  /\ discovery.releasePlan # Null
  /\ discovery.releasePlan.releases =
       <<[name |-> "pkg-a", type |-> "major"], [name |-> "pkg-b", type |-> "none"],
         [name |-> "pkg-c", type |-> "patch"]>>
  /\ Between(writes[1].body, SummaryOpen, "</details>") =
       <<Text("changesets to release"), Text("2"), Text("packages"), Text("</summary>"),
         Text("Name"), Text("Type"),
         Text("pkg-a"), Text("Major"), Text("pkg-c"), Text("Patch")>>

\* the login without its last underscore and what follows it
Stripped(login) ==
  LET us == {i \in DOMAIN login : login[i] = "_"}
  IN IF us = {} THEN login
     ELSE SubSeq(login, 1, (CHOOSE i \in us : \A j \in us : j <= i) - 1)

\* C20: in note mode, a marked note whose author login is of the randomized
\* form is found by the locator if and only if the login without its trailing
\* "_<random suffix>" equals the resolved user name, and it is found in the
\* randomized-name pass; a marked note whose author login is not of that form
\* is found only when the login equals the user name, and then in the first
\* pass.  "project_123_bot7x_ab12" yields the base "project_123_bot7x" and
\* "someoneelse" yields none.
C20_RandomizedLoginMatchesBase ==
  /\ RANDOM_BOT_NAME_PATTERN(<<"p","r","o","j","e","c","t","_","1","2","3","_","b","o","t",
                                "7","x","_","a","b","1","2">>)
       = <<"p","r","o","j","e","c","t","_","1","2","3","_","b","o","t","7","x">>
  /\ RANDOM_BOT_NAME_PATTERN(<<"s","o","m","e","o","n","e","e","l","s","e">>) = NoMatch
  /\ (npc = "done" /\ BeforeWrite /\ commentType = "note" /\ Len(AllNotes(store)) = 1) =>
       LET note == AllNotes(store)[1]
           login == note.author.username
           marked == \E k \in DOMAIN note.body :
                       note.body[k] = [t |-> "Generated By Changesets GitLab Bot"]
       IN /\ (marked /\ login \in RandomFormLogins) =>
               /\ noteInfo # Null <=> Stripped(login) = Username
               /\ noteInfo # Null => random
          /\ (marked /\ login \in PlainLogins) =>
               /\ noteInfo # Null <=> login = Username
               /\ noteInfo # Null => ~random
          /\ ~marked => noteInfo = Null

C20_Witness ==
  /\ npc = "done"
  /\ BeforeWrite
  /\ random
  /\ noteInfo = [kind |-> "note", noteId |-> 1]
  /\ AllNotes(store)[1].author.username = Username \o <<"_","A","1">>

====
